---- MODULE Spec2Model ----
(***************************************************************************)
(* fetch-with-fire: a thin wrapper around window.fetch that prepends a     *)
(* base URL, attaches the firebase auth token, parses the response body as *)
(* JSON or text and routes failures to a configurable error handler.       *)
(*                                                                         *)
(* JavaScript objects are functions from property names to values; a       *)
(* property that is not set is not in the DOMAIN.  The value `undefined`   *)
(* is the constant Undefined, so that a property that is present with the  *)
(* value undefined differs from a property that is absent.                 *)
(*                                                                         *)
(* Every async function is cut at its awaits: one action per segment.      *)
(***************************************************************************)
EXTENDS Naturals, Sequences, FiniteSets, TLC

\* ------------------------------------------------------------------ bounds
\* verb calls made during one run (each call has its own slot)
MaxCalls == 2
\* objects obtained from modify()
MaxModify == 1
\* calls of modifyPermanently()
MaxPermanent == 1

\* ------------------------------------------------------------ JS values
Undefined == "<undefined>"
EmptyObject == [k \in {} |-> Undefined]

Verbs == {"get", "post", "patch", "put", "delete"}

\* The data argument of a verb call: omitted, or an object.
NoData == [type |-> "undefined"]
Ann == [type |-> "object", name |-> "Ann"]
Bob == [type |-> "object", name |-> "Bob"]
Datas == {NoData, Ann, Bob}

\* `if (data)` / `data ? a : b`
Truthy(data) == data.type = "object"

\* JSON.stringify of the data objects above
JSONStringify(data) == "{\"name\":\"" \o data.name \o "\"}"

\* The caller's options objects (the init argument of modify and
\* modifyPermanently).
XTest == [headers |-> [k \in {"X-Test"} |-> "1"]]
OwnAuth == [headers |-> [k \in {"Authorization"} |-> "Basic abc"]]
OwnMethod == [method |-> "OPTIONS"]
Options == {EmptyObject, XTest, OwnAuth, OwnMethod}

Paths == {"/users"}
BaseUrl == "https://api.example.com"
Tokens == {"K"}

\* Error values
FetchError == [message |-> "Failed to fetch"]
TokenError == [message |-> "auth/network-request-failed"]
StreamError == [message |-> "body stream is not readable"]
InvalidBodyError == [message |-> "Invalid body type. Neither JSON nor String"]

\* Responses of the backend: a status, the raw body and whether the body
\* stream can be read at all.
Statuses == {200, 500}
JsonId == "{\"id\":1}"
JsonWithStatus == "{\"id\":1,\"statusCode\":7}"
RawBodies == {JsonId, JsonWithStatus, "", "internal error"}
Responses ==
    [status : Statuses, raw : RawBodies, readable : {TRUE}]
        \cup [status : Statuses, raw : {""}, readable : {FALSE}]

\* JSON.parse on the raw bodies above: ok = FALSE is a SyntaxError.
JSONParse(raw) ==
    CASE raw = JsonId -> [ok |-> TRUE, value |-> [id |-> 1]]
      [] raw = JsonWithStatus -> [ok |-> TRUE, value |-> [id |-> 1, statusCode |-> 7]]
      [] OTHER -> [ok |-> FALSE]

\* --------------------------------------------------------------- deepmerge
\* Properties whose values are plain objects (all other values are strings,
\* which deepmerge copies from the source).
ObjectValued == {"headers"}

MergeObject(target, source) ==
    [k \in DOMAIN target \cup DOMAIN source |->
        IF k \in DOMAIN source THEN source[k] ELSE target[k]]

deepmerge(target, source) ==
    [k \in DOMAIN target \cup DOMAIN source |->
        IF k \in DOMAIN source
        THEN IF k \in DOMAIN target /\ k \in ObjectValued
             THEN MergeObject(target[k], source[k])
             ELSE source[k]
        ELSE target[k]]

\* ----------------------------------------------------------------- state
VARIABLES
    currentUser,    \* firebaseAuth().currentUser is set
    errorHandler,   \* this._errorHandler: "default" or "custom"
    apiUrl,         \* this._apiUrl
    heap,           \* the init objects the verb closures captured
    bound,          \* this.get ... this.delete: verb -> closure
    mods,           \* the objects modify() returned, in order
    permanent,      \* calls of modifyPermanently() so far
    calls           \* the verb calls: slot -> activation record

vars == <<currentUser, errorHandler, apiUrl, heap, bound, mods, permanent, calls>>

Slots == 1..MaxCalls

\* A closure made by one of the factories _get/_post/_patch/_put/_delete:
\* the factory and the reference of the init object it captured.
Closure(factory, ref) == [factory |-> factory, init |-> ref]

\* The activation record of a verb call.  via = 0: the call went through
\* the facade, via = i > 0: through the i-th object modify() returned.
\* calledAt is history: the base URL when the call was made.
IdleCall ==
    [pc |-> "idle", via |-> 0, verb |-> "", fn |-> Closure("", 0),
     url |-> "", data |-> NoData, tokenPending |-> FALSE, token |-> "",
     calledAt |-> BaseUrl,
     request |-> EmptyObject, response |-> EmptyObject,
     reads |-> <<>>, parsed |-> EmptyObject,
     error |-> EmptyObject, sinkArgs |-> <<>>, result |-> EmptyObject]

Init ==
    /\ currentUser \in BOOLEAN
    /\ errorHandler \in {"default", "custom"}
    /\ apiUrl = BaseUrl
    /\ heap = [r \in 1..5 |-> EmptyObject]
    /\ bound = [v \in Verbs |->
                  CASE v = "get" -> Closure("_get", 1)
                    [] v = "post" -> Closure("_post", 2)
                    [] v = "patch" -> Closure("_patch", 3)
                    [] v = "put" -> Closure("_put", 4)
                    [] v = "delete" -> Closure("_delete", 5)]
    /\ mods = <<>>
    /\ permanent = 0
    /\ calls = [c \in Slots |-> IdleCall]

\* ------------------------------------------------------- the verb factories
\* Factories copied from _post with the method left as it was.
Method_CopiedFromPost(factory) == IF factory = "_get" THEN "GET" ELSE "POST"

\* The HTTP method each factory writes into its default request.
Method(factory) ==
    CASE factory = "_get" -> "GET"
      [] factory = "_post" -> "POST"
      [] factory = "_patch" -> "PATCH"
      [] factory = "_put" -> "PUT"
      [] factory = "_delete" -> "DELETE"

\* The object literal that is the first argument of deepmerge: _get has only
\* the Authorization header, the other four also have Content-Type, which is
\* undefined (but present) when there is no data.
VerbDefault(factory, data, authorization) ==
    IF factory = "_get"
    THEN [method |-> "GET",
          headers |-> [k \in {"Authorization"} |-> authorization]]
    ELSE [method |-> Method(factory),
          headers |-> [k \in {"Content-Type", "Authorization"} |->
                         IF k = "Content-Type"
                         THEN IF Truthy(data) THEN "application/json" ELSE Undefined
                         ELSE authorization]]

\* `if (data) init.body = JSON.stringify(data)`: the captured init object
\* itself is written.  _get has no such statement.
SetBody(factory, init, data) ==
    IF factory # "_get" /\ Truthy(data)
    THEN [k \in DOMAIN init \cup {"body"} |->
            IF k = "body" THEN JSONStringify(data) ELSE init[k]]
    ELSE init

\* The object modify() returns and the methods modifyPermanently() assigns.
modify(ref) ==
    [v \in Verbs |->
        CASE v = "get" -> Closure("_get", ref)
          [] v = "post" -> Closure("_post", ref)
          [] v = "patch" -> Closure("_get", ref)
          [] v = "put" -> Closure("_post", ref)
          [] v = "delete" -> Closure("_post", ref)]

modifyPermanently(ref) ==
    [v \in Verbs |->
        CASE v = "get" -> Closure("_get", ref)
          [] v = "post" -> Closure("_post", ref)
          [] v = "patch" -> Closure("_get", ref)
          [] v = "put" -> Closure("_post", ref)
          [] v = "delete" -> Closure("_post", ref)]

\* A modify() that assigns the new closures to the facade as well.
Modify_Rebinds(init) ==
    /\ Len(mods) < MaxModify
    /\ heap' = Append(heap, init)
    /\ mods' = Append(mods, modify(Len(heap) + 1))
    /\ bound' = modify(Len(heap) + 1)
    /\ UNCHANGED <<currentUser, errorHandler, apiUrl, permanent, calls>>

\* api.modify(init): the caller's object is captured by five new closures;
\* the facade is not touched.
Modify(init) ==
    /\ Len(mods) < MaxModify
    /\ heap' = Append(heap, init)
    /\ mods' = Append(mods, modify(Len(heap) + 1))
    /\ UNCHANGED <<currentUser, errorHandler, apiUrl, bound, permanent, calls>>

\* api.modifyPermanently(init): the facade's own methods are replaced.
ModifyPermanently(init) ==
    /\ permanent < MaxPermanent
    /\ heap' = Append(heap, init)
    /\ bound' = modifyPermanently(Len(heap) + 1)
    /\ permanent' = permanent + 1
    /\ UNCHANGED <<currentUser, errorHandler, apiUrl, mods, calls>>

\* api.__setBaseUrl(apiUrl), of the variant that has it.
StagingUrl == "https://staging.example.com"
BaseUrls == {BaseUrl, StagingUrl}

setBaseUrl(url) ==
    /\ apiUrl' = url
    /\ UNCHANGED <<currentUser, errorHandler, heap, bound, mods, permanent, calls>>

\* ------------------------------------------------------------- a verb call
\* The closure a call `via.verb(...)` runs.
Target(via, verb) == IF via = 0 THEN bound[verb] ELSE mods[via][verb]

\* First segment of the async arrow function: the body is written into the
\* captured init object, then getAuthHeader runs up to its own await
\* (getIdToken is called when there is a current user) and the call
\* suspends.  Slots are used in order.
Call(c, via, verb, url, data) ==
    /\ calls[c].pc = "idle"
    /\ \A b \in Slots : b < c => calls[b].pc # "idle"
    /\ via <= Len(mods)
    /\ LET fn == Target(via, verb) IN
        /\ heap' = [heap EXCEPT ![fn.init] = SetBody(fn.factory, @, data)]
        /\ calls' = [calls EXCEPT ![c] =
                        [IdleCall EXCEPT !.pc = "awaitAuth", !.via = via,
                            !.verb = verb, !.fn = fn, !.url = url,
                            !.data = data, !.calledAt = apiUrl,
                            !.tokenPending = currentUser]]
    /\ UNCHANGED <<currentUser, errorHandler, apiUrl, bound, mods, permanent>>

\* The record of a call that is past its request: the arrow function has
\* returned or thrown, and _fetch uses neither url nor init again.  What is
\* left is the frame of _fetch from the response on.
Settled(call) == [IdleCall EXCEPT !.pc = call.pc]

\* Second segment: the Authorization value is known, the default request is
\* deep-merged with the init object as it is now, and _fetch hands the
\* result to window.fetch.
\* A request that goes to the base URL the call was made under.
Dispatched_BaseAtCall(call, authorization) ==
    [call EXCEPT !.pc = "awaitFetch", !.tokenPending = FALSE,
        !.request =
            [url |-> call.calledAt \o call.url,
             init |-> deepmerge(
                 VerbDefault(call.fn.factory, call.data, authorization),
                 heap[call.fn.init])]]

Dispatched(call, authorization) ==
    [call EXCEPT !.pc = "awaitFetch", !.tokenPending = FALSE,
        !.request =
            [url |-> apiUrl \o call.url,
             init |-> deepmerge(
                 VerbDefault(call.fn.factory, call.data, authorization),
                 heap[call.fn.init])]]

Dispatch(c, authorization) ==
    calls' = [calls EXCEPT ![c] = Dispatched(@, authorization)]

\* getAuthHeader returned undefined: nobody is signed in.
ResumeAnonymous(c) ==
    /\ calls[c].pc = "awaitAuth"
    /\ ~calls[c].tokenPending
    /\ Dispatch(c, Undefined)
    /\ UNCHANGED <<currentUser, errorHandler, apiUrl, heap, bound, mods, permanent>>

\* The token itself as the header value, without the scheme.
TokenResolved_BareToken(c, token) ==
    /\ calls[c].pc = "awaitAuth"
    /\ calls[c].tokenPending
    /\ calls' = [calls EXCEPT ![c] =
                    [Dispatched(@, token) EXCEPT !.token = token]]
    /\ UNCHANGED <<currentUser, errorHandler, apiUrl, heap, bound, mods, permanent>>

\* getIdToken() resolved with a token: `Bearer ${token}`.
TokenResolved(c, token) ==
    /\ calls[c].pc = "awaitAuth"
    /\ calls[c].tokenPending
    /\ calls' = [calls EXCEPT ![c] =
                    [Dispatched(@, "Bearer " \o token) EXCEPT !.token = token]]
    /\ UNCHANGED <<currentUser, errorHandler, apiUrl, heap, bound, mods, permanent>>

\* getIdToken() rejected: the await is outside _fetch's try block, so the
\* promise of the verb call rejects with that error.
TokenRejected(c) ==
    /\ calls[c].pc = "awaitAuth"
    /\ calls[c].tokenPending
    /\ calls' = [calls EXCEPT ![c] =
                    [Settled(@) EXCEPT !.pc = "rejected", !.result = TokenError]]
    /\ UNCHANGED <<currentUser, errorHandler, apiUrl, heap, bound, mods, permanent>>

\* ------------------------------------------------------- the error handler
defaultErrorHandler(error) == error

\* A handler given to the constructor: it returns a value of its own.
customErrorHandler(error) == [handled |-> error.message]

\* this._errorHandler(error)
CallErrorHandler(error) ==
    IF errorHandler = "default"
    THEN defaultErrorHandler(error)
    ELSE customErrorHandler(error)

\* A _fetch without its try/catch: the error leaves the call.
Catch_Uncaught(call, error) ==
    [call EXCEPT !.pc = "rejected", !.error = error, !.result = error]

\* The catch block of _fetch: `error` is bound, the handler is called with
\* it and what the handler returns is what _fetch returns.
Catch(call, error) ==
    [call EXCEPT !.pc = "done", !.error = error,
        !.sinkArgs = Append(@, error), !.result = CallErrorHandler(error)]

\* ------------------------------------------------------ getParsedResponse
\* What getParsedResponse returns from its try block and its catch block.
ParsedJson(value) == [json |-> TRUE, response |-> value]
ParsedString(text) == [string |-> TRUE, response |-> text]

\* `parsedResponse.json` / `parsedResponse.string`: undefined when absent.
Flag(parsed, name) == name \in DOMAIN parsed /\ parsed[name]

\* { statusCode: response.status, ...parsedResponse.response }
Spread_BodyWins(object, status) ==
    [k \in DOMAIN object \cup {"statusCode"} |->
        IF k \in DOMAIN object THEN object[k] ELSE status]

\* { ...parsedResponse.response, statusCode: response.status }
Spread(object, status) ==
    [k \in DOMAIN object \cup {"statusCode"} |->
        IF k = "statusCode" THEN status ELSE object[k]]

\* The same with the parsed value itself tested instead of the flags.
Normalize_TestsValue(parsed, status) ==
    IF Flag(parsed, "json")
    THEN [threw |-> FALSE, value |-> Spread(parsed.response, status)]
    ELSE IF Flag(parsed, "string") /\ parsed.response # ""
    THEN [threw |-> FALSE, value |-> [body |-> parsed.response, statusCode |-> status]]
    ELSE [threw |-> TRUE, value |-> InvalidBodyError]

\* The if / else if / else of _fetch after getParsedResponse returned.
Normalize(parsed, status) ==
    IF Flag(parsed, "json")
    THEN [threw |-> FALSE, value |-> Spread(parsed.response, status)]
    ELSE IF Flag(parsed, "string")
    THEN [threw |-> FALSE, value |-> [body |-> parsed.response, statusCode |-> status]]
    ELSE [threw |-> TRUE, value |-> InvalidBodyError]

\* _fetch from the return of getParsedResponse to its own return.
Finish(call, parsed) ==
    LET n == Normalize(parsed, call.response.status) IN
    IF n.threw
    THEN Catch([call EXCEPT !.parsed = parsed], n.value)
    ELSE [call EXCEPT !.pc = "done", !.parsed = parsed, !.result = n.value]

\* --------------------------------------------------- the rest of the call
\* window.fetch rejected: _fetch catches.
FetchRejected(c) ==
    /\ calls[c].pc = "awaitFetch"
    /\ calls' = [calls EXCEPT ![c] = Catch(Settled(@), FetchError)]
    /\ UNCHANGED <<currentUser, errorHandler, apiUrl, heap, bound, mods, permanent>>

\* A getParsedResponse that reads the response itself as JSON, not a clone.
FetchResolved_ReadsOriginal(c, response) ==
    /\ calls[c].pc = "awaitFetch"
    /\ calls' = [calls EXCEPT ![c] =
                    [Settled(@) EXCEPT !.pc = "awaitJson", !.response = response,
                        !.reads = <<"response.json">>]]
    /\ UNCHANGED <<currentUser, errorHandler, apiUrl, heap, bound, mods, permanent>>

\* window.fetch resolved: getParsedResponse clones the response and starts
\* reading the clone as JSON.  `reads` lists the body reads the call has
\* started: "clone.json" is response.clone().json().
FetchResolved(c, response) ==
    /\ calls[c].pc = "awaitFetch"
    /\ calls' = [calls EXCEPT ![c] =
                    [Settled(@) EXCEPT !.pc = "awaitJson", !.response = response,
                        !.reads = <<"clone.json">>]]
    /\ UNCHANGED <<currentUser, errorHandler, apiUrl, heap, bound, mods, permanent>>

\* response.clone().json() resolved.
JsonResolved(c) ==
    /\ calls[c].pc = "awaitJson"
    /\ calls[c].response.readable
    /\ JSONParse(calls[c].response.raw).ok
    /\ calls' = [calls EXCEPT ![c] =
                    Finish(@, ParsedJson(JSONParse(@.response.raw).value))]
    /\ UNCHANGED <<currentUser, errorHandler, apiUrl, heap, bound, mods, permanent>>

\* response.clone().json() rejected: the catch block starts response.text().
JsonRejected(c) ==
    /\ calls[c].pc = "awaitJson"
    /\ ~(calls[c].response.readable /\ JSONParse(calls[c].response.raw).ok)
    /\ calls' = [calls EXCEPT ![c] =
                    [@ EXCEPT !.pc = "awaitText",
                        !.reads = Append(@, "response.text")]]
    /\ UNCHANGED <<currentUser, errorHandler, apiUrl, heap, bound, mods, permanent>>

\* response.text() resolved.
TextResolved(c) ==
    /\ calls[c].pc = "awaitText"
    /\ calls[c].response.readable
    /\ calls' = [calls EXCEPT ![c] = Finish(@, ParsedString(@.response.raw))]
    /\ UNCHANGED <<currentUser, errorHandler, apiUrl, heap, bound, mods, permanent>>

\* response.text() rejected: getParsedResponse rejects with that error and
\* _fetch catches it.
TextRejected(c) ==
    /\ calls[c].pc = "awaitText"
    /\ ~calls[c].response.readable
    /\ calls' = [calls EXCEPT ![c] = Catch(@, StreamError)]
    /\ UNCHANGED <<currentUser, errorHandler, apiUrl, heap, bound, mods, permanent>>

\* ------------------------------------------------------------ specifications
\* get(url) takes no data.
DataOf(verb, datas) == IF verb = "get" THEN {NoData} ELSE datas

\* The steps of a call up to the request.
Resume(c) ==
    \/ ResumeAnonymous(c)
    \/ \E token \in Tokens : TokenResolved(c, token)
    \/ TokenRejected(c)

\* The steps of a call from the response on.
Resolve(c) ==
    \/ JsonResolved(c)
    \/ JsonRejected(c)
    \/ TextResolved(c)
    \/ TextRejected(c)

OkResponse == [status |-> 200, raw |-> JsonId, readable |-> TRUE]

\* Spec: how requests are built.  Every verb, with and without data, through
\* the facade, through modify() and after modifyPermanently(); the backend
\* answers 200 with a JSON body or not at all.
Next ==
    \/ \E init \in Options : Modify(init)
    \/ \E init \in Options : ModifyPermanently(init)
    \/ \E c \in Slots, via \in 0..MaxModify, verb \in Verbs, url \in Paths :
         \E data \in DataOf(verb, Datas) : Call(c, via, verb, url, data)
    \/ \E c \in Slots : Resume(c)
    \/ \E c \in Slots : FetchRejected(c)
    \/ \E c \in Slots : FetchResolved(c, OkResponse)
    \/ \E c \in Slots : JsonResolved(c)

Spec == Init /\ [][Next]_vars

\* SpecResponse: how responses are resolved.  Every verb through the facade
\* (without data), every response of the backend.
NextResponse ==
    \/ \E c \in Slots, verb \in Verbs, url \in Paths : Call(c, 0, verb, url, NoData)
    \/ \E c \in Slots : Resume(c)
    \/ \E c \in Slots : FetchRejected(c)
    \/ \E c \in Slots, response \in Responses : FetchResolved(c, response)
    \/ \E c \in Slots : Resolve(c)

SpecResponse == Init /\ [][NextResponse]_vars

\* SpecModify: modify() next to the facade.  get and post, with and without
\* data, through the facade and through the objects modify() returned.
InitModify == Init /\ errorHandler = "default"

NextModify ==
    \/ \E init \in {XTest, OwnAuth} : Modify(init)
    \/ \E c \in Slots, via \in 0..MaxModify, verb \in {"get", "post"}, url \in Paths :
         \E data \in DataOf(verb, {NoData, Ann}) : Call(c, via, verb, url, data)
    \/ \E c \in Slots : Resume(c)
    \/ \E c \in Slots : FetchRejected(c)
    \/ \E c \in Slots : FetchResolved(c, OkResponse)
    \/ \E c \in Slots : JsonResolved(c)

SpecModify == InitModify /\ [][NextModify]_vars

\* SpecFacade: a newly constructed facade on its own.  Every verb, with and
\* without data, two paths.
FacadePaths == {"/users", "/users/1"}

NextFacade ==
    \/ \E c \in Slots, verb \in Verbs, url \in FacadePaths :
         \E data \in DataOf(verb, {NoData, Ann}) : Call(c, 0, verb, url, data)
    \/ \E c \in Slots : Resume(c)
    \/ \E c \in Slots : FetchRejected(c)
    \/ \E c \in Slots : FetchResolved(c, OkResponse)
    \/ \E c \in Slots : JsonResolved(c)

SpecFacade == InitModify /\ [][NextFacade]_vars

\* SpecAuth: the Authorization header with a user signed in.  Every verb
\* without data, through the facade and through modify(), two tokens.
AuthTokens == {"K", "L"}

InitAuth == InitModify /\ currentUser

NextAuth ==
    \/ \E init \in {XTest, OwnAuth} : Modify(init)
    \/ \E c \in Slots, via \in 0..MaxModify, verb \in Verbs, url \in Paths :
         Call(c, via, verb, url, NoData)
    \/ \E c \in Slots, token \in AuthTokens : TokenResolved(c, token)
    \/ \E c \in Slots : TokenRejected(c)
    \/ \E c \in Slots : FetchRejected(c)
    \/ \E c \in Slots : FetchResolved(c, OkResponse)
    \/ \E c \in Slots : JsonResolved(c)

SpecAuth == InitAuth /\ [][NextAuth]_vars

\* SpecBaseUrl: the variant with __setBaseUrl (it has no modify).  get and
\* post without data, two paths, the base URL set at any moment.
NextBaseUrl ==
    \/ \E url \in BaseUrls : setBaseUrl(url)
    \/ \E c \in Slots, verb \in {"get", "post"}, url \in FacadePaths :
         Call(c, 0, verb, url, NoData)
    \/ \E c \in Slots : Resume(c)
    \/ \E c \in Slots : FetchRejected(c)
    \/ \E c \in Slots : FetchResolved(c, OkResponse)
    \/ \E c \in Slots : JsonResolved(c)

SpecBaseUrl == InitModify /\ [][NextBaseUrl]_vars

\* ------------------------------------------------------------- properties
\* Calls whose request is with window.fetch.
InFlight == {c \in Slots : calls[c].pc = "awaitFetch"}

\* The request options call c passed to window.fetch, and the init object
\* its closure captured.
Sent(c) == calls[c].request.init
Captured(c) == heap[calls[c].fn.init]

\* The HTTP method that belongs to a verb of the API.
VerbMethod(verb) ==
    CASE verb = "get" -> "GET"
      [] verb = "post" -> "POST"
      [] verb = "patch" -> "PATCH"
      [] verb = "put" -> "PUT"
      [] verb = "delete" -> "DELETE"

\* C1: no failure leaves a verb call as a rejection; a failed token
\* retrieval is handed to the error handler like a network failure.  As an
\* invariant: no call is ever rejected.
C1_NoCallRejects ==
    \A c \in Slots : calls[c].pc # "rejected"

\* C2: concurrent calls are independent: the request of a call made with
\* data through a body-carrying closure has the JSON text of that call's own
\* data as its body.
C2_OwnBody ==
    \A c \in InFlight :
        (calls[c].fn.factory # "_get" /\ Truthy(calls[c].data))
            => /\ "body" \in DOMAIN Sent(c)
               /\ Sent(c).body = JSONStringify(calls[c].data)

\* C3: requests are built fresh per call: a post, put, patch or delete call
\* made without data sends a request without a body, whatever calls were
\* made before.
C3_NoDataNoBody ==
    \A c \in InFlight :
        (calls[c].verb # "get" /\ ~Truthy(calls[c].data))
            => "body" \notin DOMAIN Sent(c)

\* C4: through modify(options) or after modifyPermanently(options), with
\* options that do not set `method`, the request of verb V has V's method.
\* (The init objects of the constructor's closures are the first five of
\* the heap; a later one was given to modify or modifyPermanently.)
C4_ModifiedVerbKeepsMethod ==
    \A c \in InFlight :
        ((calls[c].via > 0 \/ calls[c].fn.init > 5)
                /\ "method" \notin DOMAIN Captured(c))
            => Sent(c).method = VerbMethod(calls[c].verb)

\* C5: when nobody is signed in (and the caller's options set no
\* Authorization header of their own), the request options have no
\* Authorization header at all.
OwnAuthorization(c) ==
    /\ "headers" \in DOMAIN Captured(c)
    /\ "Authorization" \in DOMAIN Captured(c).headers

C5_NoAuthorizationKey ==
    \A c \in InFlight :
        (~currentUser /\ ~OwnAuthorization(c))
            => "Authorization" \notin DOMAIN Sent(c).headers

\* C6: when window.fetch rejects with E, the error handler is called exactly
\* once, with E, the call resolves (it does not reject) and its result is
\* what the handler returned: E itself with the default handler.
C6_FetchFailureToHandler ==
    \A c \in Slots :
        calls[c].error = FetchError
            => /\ calls[c].pc = "done"
               /\ calls[c].sinkArgs = <<FetchError>>
               /\ calls[c].result = CallErrorHandler(FetchError)
               /\ errorHandler = "default" => calls[c].result = FetchError

C6_Witness ==
    \E c \in Slots :
        /\ calls[c].pc = "done"
        /\ calls[c].error = FetchError
        /\ errorHandler = "default"
        /\ calls[c].result = FetchError

\* A call that has returned the normalized result of a response.
Resolved(c) == calls[c].pc = "done" /\ calls[c].response # EmptyObject

JsonBody(c) == calls[c].response.readable /\ JSONParse(calls[c].response.raw).ok

\* C7: a response whose body is the JSON text of an object B, with status
\* S, resolves to the fields of B and statusCode = S; a statusCode field of
\* B is overwritten by S, every other field of B is kept as it is.
C7_JsonResult ==
    \A c \in Slots :
        (Resolved(c) /\ JsonBody(c))
            => LET B == JSONParse(calls[c].response.raw).value
                   result == calls[c].result
               IN /\ DOMAIN result = DOMAIN B \cup {"statusCode"}
                  /\ result.statusCode = calls[c].response.status
                  /\ \A k \in DOMAIN B \ {"statusCode"} : result[k] = B[k]
                  /\ calls[c].sinkArgs = <<>>

C7_Witness ==
    \E c \in Slots :
        /\ Resolved(c)
        /\ calls[c].response.raw = JsonWithStatus
        /\ calls[c].response.status = 500
        /\ calls[c].result = [id |-> 1, statusCode |-> 500]

\* C8: a response whose body is not JSON but can be read as text T (the
\* empty text too), with status S, resolves to exactly {body: T,
\* statusCode: S} and the error handler is not called.
C8_TextResult ==
    \A c \in Slots :
        (Resolved(c) /\ calls[c].response.readable
                /\ ~JSONParse(calls[c].response.raw).ok)
            => /\ calls[c].result =
                    [body |-> calls[c].response.raw,
                     statusCode |-> calls[c].response.status]
               /\ calls[c].sinkArgs = <<>>

C8_Witness ==
    \E c \in Slots :
        /\ Resolved(c)
        /\ calls[c].response.raw = ""
        /\ calls[c].response.readable
        /\ calls[c].result = [body |-> "", statusCode |-> 500]

\* C9: when the body can be read neither as JSON nor as text, the error the
\* handler gets is the "Invalid body type" error.
C9_InvalidBodyError ==
    \A c \in Slots :
        (Resolved(c) /\ ~calls[c].response.readable)
            => calls[c].sinkArgs = <<InvalidBodyError>>

\* What getAuthHeader resolves to (there is one token).
ResolvedAuthorization == IF currentUser THEN "Bearer K" ELSE Undefined

\* The headers of a get through an object modify({headers: H}) returned:
\* Authorization and the keys of H; H's values for H's keys, the resolved
\* Authorization otherwise.
ModifiedGetHeaders ==
    \A c \in InFlight :
        (calls[c].via > 0 /\ calls[c].verb = "get")
            => LET H == Captured(c).headers
                   headers == Sent(c).headers
               IN /\ DOMAIN headers = {"Authorization"} \cup DOMAIN H
                  /\ \A k \in DOMAIN H : headers[k] = H[k]
                  /\ "Authorization" \notin DOMAIN H
                        => headers.Authorization = ResolvedAuthorization

\* What the requests of calls through the facade are built from: the
\* facade's closures and the init objects they captured.
FacadeView ==
    [v \in Verbs |-> [fn |-> bound[v], init |-> heap[bound[v].init]]]

\* A step of modify() or of a call through an object modify() returned.
ModifyStep ==
    \/ mods' # mods
    \/ \E c \in Slots :
         /\ calls'[c] # calls[c]
         /\ calls[c].via > 0 \/ calls'[c].via > 0

\* C10: modify({headers: H}).get(path) sends get's default headers
\* deep-merged with H, and neither modify() nor any call through the object
\* it returned changes what calls through the facade send.
C10_ModifyLeavesFacade ==
    /\ []ModifiedGetHeaders
    /\ [][ModifyStep => FacadeView' = FacadeView]_vars

C10_Witness ==
    \E c, d \in InFlight :
        /\ c < d
        /\ calls[c].via > 0 /\ calls[c].verb = "get"
        /\ DOMAIN Sent(c).headers = {"Authorization", "X-Test"}
        /\ Sent(c).headers["X-Test"] = "1"
        /\ calls[d].via = 0 /\ calls[d].verb = "get"
        /\ DOMAIN Sent(d).headers = {"Authorization"}

\* The call is the only one made so far.
OnlyCall(c) == \A d \in Slots \ {c} : calls[d].pc = "idle"

\* C11: post, put, patch or delete called on a newly constructed facade with
\* path p and an object d, as the only call: the request goes to the base
\* URL followed by p, with the verb's method, Content-Type application/json
\* and the JSON text of d as its body.
C11_FirstCallRequest ==
    \A c \in InFlight :
        (OnlyCall(c) /\ calls[c].via = 0 /\ permanent = 0
                /\ calls[c].verb # "get" /\ Truthy(calls[c].data))
            => /\ calls[c].request.url = BaseUrl \o calls[c].url
               /\ Sent(c).method = VerbMethod(calls[c].verb)
               /\ DOMAIN Sent(c) = {"method", "headers", "body"}
               /\ Sent(c).headers["Content-Type"] = "application/json"
               /\ Sent(c).body = JSONStringify(calls[c].data)

C11_Witness ==
    \E c \in InFlight :
        /\ OnlyCall(c)
        /\ calls[c].verb = "put"
        /\ calls[c].data = Ann
        /\ calls[c].request.url = "https://api.example.com/users/1"
        /\ Sent(c).method = "PUT"
        /\ Sent(c).body = "{\"name\":\"Ann\"}"

\* C12: with a user signed in whose token retrieval resolves to K, and no
\* Authorization header in the caller's options, the request of every verb
\* has the Authorization header "Bearer " followed by K, and no request is
\* with window.fetch while the token retrieval is still pending.
C12_BearerToken ==
    /\ \A c \in Slots : calls[c].tokenPending => calls[c].pc = "awaitAuth"
    /\ \A c \in InFlight :
          (currentUser /\ ~OwnAuthorization(c))
              => /\ calls[c].token # ""
                 /\ "Authorization" \in DOMAIN Sent(c).headers
                 /\ Sent(c).headers.Authorization = "Bearer " \o calls[c].token

C12_Witness ==
    \E c \in InFlight :
        /\ currentUser
        /\ calls[c].verb = "delete"
        /\ calls[c].via > 0
        /\ calls[c].token = "L"
        /\ Sent(c).headers.Authorization = "Bearer L"

\* The body reads that start on the response itself, not on a clone.
OriginalReads(c) ==
    {i \in DOMAIN calls[c].reads :
        calls[c].reads[i] \in {"response.json", "response.text"}}

\* C13: getParsedResponse reads JSON only from a clone of the response,
\* starts the text read on the response itself only after the JSON read has
\* failed, reads the body of the response itself at most once, and what it
\* returns has exactly one of the flags json and string.
C13_ReadOrder ==
    \A c \in Slots :
        /\ calls[c].reads \in
                {<<>>, <<"clone.json">>, <<"clone.json", "response.text">>}
        /\ Cardinality(OriginalReads(c)) <= 1
        /\ OriginalReads(c) # {}
                => calls[c].pc \in {"awaitText", "done"} /\ ~JsonBody(c)
        /\ calls[c].parsed # EmptyObject
                => Flag(calls[c].parsed, "json") # Flag(calls[c].parsed, "string")

C13_Witness ==
    \E c \in Slots :
        /\ calls[c].pc = "done"
        /\ calls[c].reads = <<"clone.json", "response.text">>
        /\ calls[c].parsed = [string |-> TRUE, response |-> "internal error"]

\* C14: the URL given to window.fetch is the base URL at the moment the
\* request is made (after the token retrieval has resumed) followed by the
\* path as it is: a __setBaseUrl that completes while a call waits for its
\* token applies to that call.
C14_UrlAtDispatch ==
    [][\A c \in Slots :
          (calls[c].pc = "awaitAuth" /\ calls'[c].pc = "awaitFetch")
              => calls'[c].request.url = apiUrl \o calls[c].url]_vars

C14_Witness ==
    \E c \in InFlight :
        /\ calls[c].calledAt = BaseUrl
        /\ calls[c].url = "/users/1"
        /\ calls[c].request.url = "https://staging.example.com/users/1"

====
